---- MODULE Spec2Model ----
(***************************************************************************)
(* Model of scripts/build_basic_rom.py: the generator that turns the two   *)
(* EhBASIC hex dumps into src/BasicRom.sol.                                 *)
(*                                                                         *)
(* Text is a sequence of one-character strings.  The sizes are the ones    *)
(* of the script (16384 characters per part, 1024 per literal); the input  *)
(* files are drawn from a family of texts built around a full-size body.   *)
(***************************************************************************)
EXTENDS Integers, Sequences, FiniteSets, TLC

VARIABLES
    pc,            \* where main() is
    p,             \* index into PART_FILES of the list comprehension
    nread,         \* number of read_text() calls that have returned
    fileText,      \* the text the latest read_text() returned
    parts, combined, chunks, hex_literals, sol_source,   \* locals of main()
    outFile,       \* the file at OUTPUT_SOL
    stdout,        \* what has been printed
    err            \* the exception that ended the run, if any

vars == <<pc, p, nread, fileText, parts, combined, chunks, hex_literals,
          sol_source, outFile, stdout, err>>

\* ------------------------------------------------------------------------
\* Module-level constants of the script
\* ------------------------------------------------------------------------
PART_FILES == <<"rom/eh_hex_part1.txt", "rom/eh_hex_part2.txt">>

OUTPUT_SOL == "src/BasicRom.sol"

CHUNK_HEX_LEN == 1024

PART_HEX_LEN == 16384

COMBINED_HEX_LEN == 32768

\* ------------------------------------------------------------------------
\* Python string primitives used by the script
\* ------------------------------------------------------------------------
\* str.strip() with no argument removes these (the ASCII members of
\* str.isspace that can occur in the modelled files).
Whitespace == {" ", "\t", "\n", "\r", "\f"}

HexDigits == {"0", "1", "2", "3", "4", "5", "6", "7", "8", "9",
              "a", "b", "c", "d", "e", "f", "A", "B", "C", "D", "E", "F"}

\* The text whose k-th character is f[k], as a tuple: the same value as f,
\* in the form TLC reads fastest.
Text(f) == SubSeq(f, 1, Len(f))

\* Path.read_text() opens the file in text mode with universal newlines:
\* "\r\n" and a lone "\r" both arrive as "\n".
UniversalNewlines(s) ==
    LET n == Len(s)
        t == [k \in 1..n |->
                 IF s[k] = "\r"
                 THEN (IF k < n /\ s[k + 1] = "\n" THEN "" ELSE "\n")
                 ELSE s[k]]
        keep(c) == c # ""
    IN SelectSeq(t, keep)

\* str.strip(): drop the leading and the trailing run of whitespace.
Strip(s) ==
    LET n == Len(s)
        blank(a, b) == \A j \in a..b : s[j] \in Whitespace
    IN IF blank(1, n) THEN <<>>
       ELSE LET first == CHOOSE k \in 1..n :
                             s[k] \notin Whitespace /\ blank(1, k - 1)
                last == CHOOSE k \in 1..n :
                            s[k] \notin Whitespace /\ blank(k + 1, n)
            IN SubSeq(s, first, last)

\* str.replace("\n", ""): drop every newline, and nothing else.
ReplaceNewline(s) ==
    LET keep(c) == c # "\n"
    IN SelectSeq(s, keep)

LowerChar(c) ==
    CASE c = "A" -> "a" [] c = "B" -> "b" [] c = "C" -> "c"
      [] c = "D" -> "d" [] c = "E" -> "e" [] c = "F" -> "f"
      [] c = "G" -> "g" [] OTHER -> c

\* str.lower()
Lower(s) == Text([k \in 1..Len(s) |-> LowerChar(s[k])])

\* ------------------------------------------------------------------------
\* read_and_validate, after the text has been read
\* ------------------------------------------------------------------------
\* .strip().replace("\n", "")
Normalize(text) == ReplaceNewline(Strip(text))

IsHex(data) == \A k \in 1..Len(data) : data[k] \in HexDigits

\* f"{path} is {len(data)} chars, expected 16384"
LengthMessage(path, data) ==
    <<path, " is ", ToString(Len(data)), " chars, expected 16384">>

\* f"{path} contains invalid hex"
HexMessage(path) == <<path, " contains invalid hex">>

ValueError(msg) == [type |-> "ValueError", msg |-> msg]

NoError == [type |-> "none", msg |-> <<>>]

\* read_and_validate without the character check.
read_and_validate_NoHexCheck(path, text) ==
    LET data == Normalize(text)
    IN IF Len(data) # PART_HEX_LEN
       THEN [ok |-> FALSE, value |-> <<>>,
             error |-> ValueError(LengthMessage(path, data))]
       ELSE [ok |-> TRUE, value |-> Lower(data), error |-> NoError]

\* read_and_validate without the length check.
read_and_validate_NoLengthCheck(path, text) ==
    LET data == Normalize(text)
    IN IF Len(data) % 2 # 0 \/ ~IsHex(data)
       THEN [ok |-> FALSE, value |-> <<>>,
             error |-> ValueError(HexMessage(path))]
       ELSE [ok |-> TRUE, value |-> Lower(data), error |-> NoError]

\* read_and_validate returning the text as it was cased in the file.
read_and_validate_NoLower(path, text) ==
    LET data == Normalize(text)
    IN IF Len(data) # PART_HEX_LEN
       THEN [ok |-> FALSE, value |-> <<>>,
             error |-> ValueError(LengthMessage(path, data))]
       ELSE IF Len(data) % 2 # 0 \/ ~IsHex(data)
            THEN [ok |-> FALSE, value |-> <<>>,
                  error |-> ValueError(HexMessage(path))]
            ELSE [ok |-> TRUE, value |-> data, error |-> NoError]

\* The outcome of read_and_validate on the text read from `path`.
read_and_validate(path, text) ==
    LET data == Normalize(text)
    IN IF Len(data) # PART_HEX_LEN
       THEN [ok |-> FALSE, value |-> <<>>,
             error |-> ValueError(LengthMessage(path, data))]
       ELSE IF Len(data) % 2 # 0 \/ ~IsHex(data)
            THEN [ok |-> FALSE, value |-> <<>>,
                  error |-> ValueError(HexMessage(path))]
            ELSE [ok |-> TRUE, value |-> Lower(data), error |-> NoError]

\* ------------------------------------------------------------------------
\* textwrap.wrap(text, width) with the default TextWrapper options, for text
\* without hyphens
\* ------------------------------------------------------------------------
Spaces(n) == Text([k \in 1..n |-> " "])

\* str.expandtabs(8): a tab becomes the spaces up to the next multiple of 8;
\* the column restarts after a newline or a return.
RECURSIVE ExpandTabs(_)
ExpandTabs(s) ==
    LET n == Len(s)
        notab(a, b) == \A j \in a..b : s[j] # "\t"
    IN IF notab(1, n) THEN s
       ELSE LET t == CHOOSE k \in 1..n : s[k] = "\t" /\ notab(1, k - 1)
                breaks == {k \in 1..(t - 1) : s[k] \in {"\n", "\r"}}
                start == IF breaks = {} THEN 0
                         ELSE CHOOSE k \in breaks : \A j \in breaks : j <= k
                col == (t - 1) - start
            IN SubSeq(s, 1, t - 1) \o Spaces(8 - (col % 8))
                   \o ExpandTabs(SubSeq(s, t + 1, n))

\* TextWrapper._munge_whitespace: expand tabs, then every whitespace
\* character becomes a space (replace_whitespace).
ReplaceWhitespace(s) ==
    Text([k \in 1..Len(s) |-> IF s[k] \in Whitespace THEN " " ELSE s[k]])

MungeWhitespace(s) == ReplaceWhitespace(ExpandTabs(s))

\* chunk.strip() == ''
IsBlank(c) == \A k \in 1..Len(c) : c[k] = " "

\* TextWrapper._split: maximal runs of spaces and maximal runs of non-spaces.
SplitChunks(s) ==
    LET n == Len(s)
        starts == {k \in 1..n : k = 1 \/ ((s[k] = " ") # (s[k - 1] = " "))}
        m == Cardinality(starts)
        nth(j) == CHOOSE k \in starts :
                      Cardinality({i \in starts : i < k}) = j - 1
    IN Text([j \in 1..m |->
                SubSeq(s, nth(j), IF j = m THEN n ELSE nth(j + 1) - 1)])

RECURSIVE Concat(_)
Concat(ss) == IF ss = <<>> THEN <<>> ELSE Head(ss) \o Concat(Tail(ss))

RECURSIVE TotalLen(_)
TotalLen(ss) == IF ss = <<>> THEN 0 ELSE Len(Head(ss)) + TotalLen(Tail(ss))

\* TextWrapper._wrap_chunks, one pass of the outer loop per line.
RECURSIVE WrapChunks(_, _, _)
WrapChunks(cs, width, lines) ==
    IF cs = <<>> THEN lines
    ELSE LET \* drop_whitespace: a blank chunk opening a line after the first
             cs1 == IF IsBlank(Head(cs)) /\ lines # <<>> THEN Tail(cs) ELSE cs
             \* the chunks that fit the line
             fit == CHOOSE k \in 0..Len(cs1) :
                        /\ TotalLen(SubSeq(cs1, 1, k)) <= width
                        /\ (k < Len(cs1) =>
                               TotalLen(SubSeq(cs1, 1, k + 1)) > width)
             cur == SubSeq(cs1, 1, fit)
             rest == SubSeq(cs1, fit + 1, Len(cs1))
             \* _handle_long_word with break_long_words
             long == rest # <<>> /\ Len(Head(rest)) > width
             space_left == IF width < 1 THEN 1 ELSE width - TotalLen(cur)
             cur2 == IF long
                     THEN Append(cur, SubSeq(Head(rest), 1, space_left))
                     ELSE cur
             rest2 == IF long
                      THEN <<SubSeq(Head(rest), space_left + 1, Len(Head(rest)))>>
                               \o Tail(rest)
                      ELSE rest
             \* drop_whitespace: a blank chunk closing the line
             cur3 == IF cur2 # <<>> /\ IsBlank(cur2[Len(cur2)])
                     THEN SubSeq(cur2, 1, Len(cur2) - 1)
                     ELSE cur2
             lines2 == IF cur3 # <<>> THEN Append(lines, Concat(cur3)) ELSE lines
         IN WrapChunks(rest2, width, lines2)

\* textwrap.wrap with break_long_words off: a word longer than the width
\* stays whole on a line of its own.
Wrap_LongWordsKept(text, width) ==
    LET cs == SplitChunks(MungeWhitespace(text))
        words == SelectSeq(cs, LAMBDA c : ~IsBlank(c))
    IN words

Wrap(text, width) == WrapChunks(SplitChunks(MungeWhitespace(text)), width, <<>>)

\* ------------------------------------------------------------------------
\* main: the literals, the template, the confirmation
\* ------------------------------------------------------------------------
\* f'hex"{chunk}"'
HexLiteral(chunk) == <<"h", "e", "x", "\"">> \o chunk \o <<"\"">>

\* The join over all chunks but the last.
RECURSIVE JoinLiterals_DropsLast(_)
JoinLiterals_DropsLast(cs) ==
    IF Len(cs) <= 1 THEN <<>>
    ELSE IF Len(cs) = 2 THEN HexLiteral(cs[1])
    ELSE HexLiteral(cs[1]) \o <<" ">> \o JoinLiterals_DropsLast(Tail(cs))

\* " ".join(f'hex"{chunk}"' for chunk in chunks)
RECURSIVE JoinLiterals(_)
JoinLiterals(cs) ==
    IF cs = <<>> THEN <<>>
    ELSE IF Len(cs) = 1 THEN HexLiteral(cs[1])
    ELSE HexLiteral(cs[1]) \o <<" ">> \o JoinLiterals(Tail(cs))

\* The fixed text of the template before and after {hex_literals}; each is
\* kept as one element of the rendered text.  (The two backquotes of the
\* template are written as apostrophes, and its dashes in ASCII.)
TEMPLATE_HEAD ==
    "// SPDX-License-Identifier: MIT\npragma solidity ^0.8.20;\n\n/// @title BasicRom - EhBASIC v2.22 ROM (16 KiB)\n/// @notice Deployed bytecode *is* the ROM image. Auto-generated - DO NOT EDIT MANUALLY.\n///          Regenerate with 'python scripts/build_basic_rom.py' if needed.\ncontract BasicRom {\n    constructor() {\n        bytes memory rom = "

TEMPLATE_TAIL ==
    ";\n        assembly {\n            return(add(rom, 0x20), mload(rom))\n        }\n    }\n}\n"

SolSource(literals) == <<TEMPLATE_HEAD>> \o literals \o <<TEMPLATE_TAIL>>

\* print(f"Generated {{OUTPUT_SOL}} ({{len(combined) // 2}} bytes)"): in an
\* f-string "{{" and "}}" are literal braces, so nothing is substituted.
Confirmation ==
    <<"Generated ", "{OUTPUT_SOL}", " (", "{len(combined) // 2}", " bytes)">>

\* ------------------------------------------------------------------------
\* The input files a run may find
\* ------------------------------------------------------------------------
MaxPad == 1

MaxDelta == 1

MaxEditChunk == 1

UpperDigits == <<"0", "1", "2", "3", "4", "5", "6", "7",
                 "8", "9", "A", "B", "C", "D", "E", "F">>

Kinds == {"zero", "ones", "RAMP", "ramp"}

\* A body of n hex digits: all "0", all "f", or a ramp whose digits change
\* with the position and with the 1024-character block.
BodyChar(kind, k) ==
    LET d == UpperDigits[((((k - 1) \div CHUNK_HEX_LEN) + (k - 1)) % 16) + 1]
    IN CASE kind = "zero" -> "0"
         [] kind = "ones" -> "f"
         [] kind = "RAMP" -> d
         [] OTHER -> LowerChar(d)

Body(kind, n) == Text([k \in 1..n |-> BodyChar(kind, k)])

Run(c, n) == Text([k \in 1..n |-> c])

InsertAt(s, pos, c) ==
    SubSeq(s, 1, pos - 1) \o <<c>> \o SubSeq(s, pos, Len(s))

ReplaceAt(s, pos, c) == Text([s EXCEPT ![pos] = c])

EditPositions == {j * CHUNK_HEX_LEN + 1 : j \in 1..MaxEditChunk}

PadChars == {" ", "\t", "\r", "\n"}

EditChars == PadChars \cup {"g", "G"}

Full(kind) == Body(kind, PART_HEX_LEN)

FileTexts ==
    {Full(k) : k \in Kinds}
      \cup {Run(c, j) \o Full("RAMP") \o Run(c, j) : c \in PadChars, j \in 1..MaxPad}
      \cup {<<"\r", "\n">> \o Full("ones") \o <<" ", "\t", "\r", "\n">>}
      \cup {InsertAt(Full("zero"), pos, c) : pos \in EditPositions, c \in EditChars}
      \cup {InsertAt(Full("ramp"), pos + 1, "\n") : pos \in EditPositions}
      \cup {ReplaceAt(Full("ones"), pos, c) : pos \in EditPositions, c \in EditChars}
      \cup {Body("zero", PART_HEX_LEN - d) : d \in 1..MaxDelta}
      \cup {Body("ones", PART_HEX_LEN + d) : d \in 1..MaxDelta}
      \cup {Run(c, j) : c \in PadChars, j \in 0..MaxPad}

File(text) == [readable |-> TRUE, text |-> text]

Unreadable == [readable |-> FALSE, text |-> <<>>]

Files == {File(t) : t \in FileTexts} \cup {Unreadable}

Absent == [exists |-> FALSE, text |-> <<>>]

OldOutput == [exists |-> TRUE, text |-> <<"// previous BasicRom.sol">>]

\* ------------------------------------------------------------------------
\* The run of main()
\* ------------------------------------------------------------------------
Init ==
    /\ pc = "read"
    /\ p = 1
    /\ nread = 0
    /\ fileText = <<>>
    /\ parts = <<>>
    /\ combined = <<>>
    /\ chunks = <<>>
    /\ hex_literals = <<>>
    /\ sol_source = <<>>
    /\ outFile \in {Absent, OldOutput}
    /\ stdout = <<>>
    /\ err = NoError

\* path.read_text() of PART_FILES[p], the first call of read_and_validate
ReadText ==
    /\ pc = "read"
    /\ \E f \in Files :
          IF f.readable
          THEN /\ fileText' = UniversalNewlines(f.text)
               /\ nread' = nread + 1
               /\ pc' = "validate"
               /\ err' = err
          ELSE /\ fileText' = fileText
               /\ nread' = nread
               /\ pc' = "failed"
               /\ err' = [type |-> "OSError", msg |-> <<PART_FILES[p]>>]
    /\ UNCHANGED <<p, parts, combined, chunks, hex_literals, sol_source,
                   outFile, stdout>>

\* Validate with the exception swallowed: a rejected fragment is skipped
\* and the list comprehension goes on.
Validate_SkipsRejected ==
    /\ pc = "validate"
    /\ LET r == read_and_validate(PART_FILES[p], fileText)
       IN /\ parts' = IF r.ok THEN Append(parts, r.value) ELSE parts
          /\ err' = err
          /\ IF p < Len(PART_FILES)
             THEN p' = p + 1 /\ pc' = "read"
             ELSE p' = p /\ pc' = "join"
    /\ UNCHANGED <<nread, fileText, combined, chunks, hex_literals, sol_source,
                   outFile, stdout>>

\* The rest of read_and_validate(PART_FILES[p]), and the step of the list
\* comprehension that collects its result.
Validate ==
    /\ pc = "validate"
    /\ LET r == read_and_validate(PART_FILES[p], fileText)
       IN IF r.ok
          THEN /\ parts' = Append(parts, r.value)
               /\ err' = err
               /\ IF p < Len(PART_FILES)
                  THEN p' = p + 1 /\ pc' = "read"
                  ELSE p' = p /\ pc' = "join"
          ELSE /\ parts' = parts
               /\ err' = r.error
               /\ p' = p
               /\ pc' = "failed"
    /\ UNCHANGED <<nread, fileText, combined, chunks, hex_literals, sol_source,
                   outFile, stdout>>

\* combined = "".join(parts), and the check of its length
Join ==
    /\ pc = "join"
    /\ combined' = Concat(parts)
    /\ IF Len(combined') # COMBINED_HEX_LEN
       THEN /\ pc' = "failed"
            /\ err' = [type |-> "AssertionError",
                       msg |-> <<"Combined ROM hex should be 32768 chars (16 KiB)">>]
       ELSE /\ pc' = "wrap"
            /\ err' = err
    /\ UNCHANGED <<p, nread, fileText, parts, chunks, hex_literals, sol_source,
                   outFile, stdout>>

\* chunks = textwrap.wrap(combined, CHUNK_HEX_LEN)
WrapCombined ==
    /\ pc = "wrap"
    /\ chunks' = Wrap(combined, CHUNK_HEX_LEN)
    /\ pc' = "literals"
    /\ UNCHANGED <<p, nread, fileText, parts, combined, hex_literals, sol_source,
                   outFile, stdout, err>>

\* hex_literals = " ".join(...)
Literals ==
    /\ pc = "literals"
    /\ hex_literals' = JoinLiterals(chunks)
    /\ pc' = "format"
    /\ UNCHANGED <<p, nread, fileText, parts, combined, chunks, sol_source,
                   outFile, stdout, err>>

\* sol_source = f"""..."""
Format ==
    /\ pc = "format"
    /\ sol_source' = SolSource(hex_literals)
    /\ pc' = "write"
    /\ UNCHANGED <<p, nread, fileText, parts, combined, chunks, hex_literals,
                   outFile, stdout, err>>

\* OUTPUT_SOL.write_text(sol_source)
WriteText ==
    /\ pc = "write"
    /\ outFile' = [exists |-> TRUE, text |-> sol_source]
    /\ pc' = "print"
    /\ UNCHANGED <<p, nread, fileText, parts, combined, chunks, hex_literals,
                   sol_source, stdout, err>>

\* write_text failing: the file could not be opened (left as it was), or it
\* was opened for writing, which truncates it, and the write then failed.
WriteFails ==
    /\ pc = "write"
    /\ outFile' \in {outFile, [exists |-> TRUE, text |-> <<>>]}
    /\ pc' = "failed"
    /\ err' = [type |-> "OSError", msg |-> <<OUTPUT_SOL>>]
    /\ UNCHANGED <<p, nread, fileText, parts, combined, chunks, hex_literals,
                   sol_source, stdout>>

\* print(...)
PrintConfirmation ==
    /\ pc = "print"
    /\ stdout' = Append(stdout, Confirmation)
    /\ pc' = "done"
    /\ UNCHANGED <<p, nread, fileText, parts, combined, chunks, hex_literals,
                   sol_source, outFile, err>>

Next ==
    \/ ReadText
    \/ Validate
    \/ Join
    \/ WrapCombined
    \/ Literals
    \/ Format
    \/ WriteText
    \/ WriteFails
    \/ PrintConfirmation

Spec == Init /\ [][Next]_vars

\* ------------------------------------------------------------------------
\* Vocabulary of the properties
\* ------------------------------------------------------------------------
\* The latest text read has been through the checks of read_and_validate.
Judged == nread > 0 /\ pc # "validate"

\* ... and was returned into parts / was rejected with an exception.
Accepted == Judged /\ Len(parts) = nread

Rejected == Judged /\ pc = "failed" /\ Len(parts) = nread - 1

LatestPath == PART_FILES[nread]

AfterJoin == {"wrap", "literals", "format", "write", "print", "done"}

AfterWrap == {"literals", "format", "write", "print", "done"}

AfterFormat == {"write", "print", "done"}

PriorOutputs == {Absent, OldOutput}

UpperLetters == {"A", "B", "C", "D", "E", "F", "G"}

NoUpper(t) == \A k \in 1..Len(t) : t[k] \notin UpperLetters

\* The normalisation the design document asks for: every whitespace
\* character removed, wherever it stands.
WithoutWhitespace(t) == SelectSeq(t, LAMBDA c : c \notin Whitespace)

SwapCaseChar(c) ==
    CASE c = "A" -> "a" [] c = "B" -> "b" [] c = "C" -> "c" [] c = "D" -> "d"
      [] c = "E" -> "e" [] c = "F" -> "f" [] c = "G" -> "g"
      [] c = "a" -> "A" [] c = "b" -> "B" [] c = "c" -> "C" [] c = "d" -> "D"
      [] c = "e" -> "E" [] c = "f" -> "F" [] c = "g" -> "G"
      [] OTHER -> c

\* The same text with the case of every letter changed.
SwapCase(t) == Text([k \in 1..Len(t) |-> SwapCaseChar(t[k])])

\* The hex literal tokens of a rendered source text, in the order they stand
\* in it: for each  hex"  the characters up to the closing quote.
TokenStarts(src) ==
    {k \in 1..(Len(src) - 4) :
        /\ src[k] = "h" /\ src[k + 1] = "e" /\ src[k + 2] = "x"
        /\ src[k + 3] = "\""
        /\ \E j \in (k + 4)..Len(src) : src[j] = "\""}

TokenAt(src, k) ==
    LET close == CHOOSE j \in (k + 4)..Len(src) :
                     /\ src[j] = "\""
                     /\ \A i \in (k + 4)..(j - 1) : src[i] # "\""
    IN SubSeq(src, k + 4, close - 1)

TokensFrom(src, starts) ==
    LET m == Cardinality(starts)
        nth(j) == CHOOSE k \in starts :
                      Cardinality({i \in starts : i < k}) = j - 1
    IN Text([j \in 1..m |-> TokenAt(src, nth(j))])

Tokens(src) == TokensFrom(src, TokenStarts(src))

\* ------------------------------------------------------------------------
\* C1: parts holds only fragments that passed both checks (16384 characters,
\* all hex digits); the file at OUTPUT_SOL changes only in the write step,
\* when parts holds every fragment; and a run in which a fragment is rejected
\* has ended with a ValueError and the file is as it was before the run.
\* ------------------------------------------------------------------------
C1_WrittenOnlyAfterValidation ==
    /\ [](\A i \in 1..Len(parts) :
              Len(parts[i]) = PART_HEX_LEN /\ IsHex(parts[i]))
    /\ [][outFile' # outFile =>
              (pc = "write" /\ Len(parts) = Len(PART_FILES))]_vars
    /\ [](Rejected => (err.type = "ValueError" /\ outFile \in PriorOutputs))

\* A fragment one character short was rejected, and the old file is there.
C1_Witness ==
    /\ Rejected
    /\ err = ValueError(<<PART_FILES[2], " is ", "16383", " chars, expected 16384">>)
    /\ outFile = OldOutput

\* ------------------------------------------------------------------------
\* C2 (as claimed): a text that is 16384 hex digits once all its whitespace
\* is removed passes validation, and the value returned is those digits in
\* lower case.
\* ------------------------------------------------------------------------
C2_AllWhitespaceRemoved ==
    (Judged /\ Len(WithoutWhitespace(fileText)) = PART_HEX_LEN
            /\ IsHex(WithoutWhitespace(fileText)))
        => (Accepted /\ parts[nread] = Lower(WithoutWhitespace(fileText)))

\* ------------------------------------------------------------------------
\* C3: once the payload is chunked, every chunk is 1024 characters long, the
\* i-th chunk is the i-th 1024-character slice of the payload, and the chunks
\* concatenated in order are the payload.
\* ------------------------------------------------------------------------
C3_ChunksCoverPayload ==
    pc \in AfterWrap =>
        /\ Len(chunks) * CHUNK_HEX_LEN = Len(combined)
        /\ \A i \in 1..Len(chunks) :
              /\ Len(chunks[i]) = CHUNK_HEX_LEN
              /\ chunks[i] = SubSeq(combined, (i - 1) * CHUNK_HEX_LEN + 1,
                                    i * CHUNK_HEX_LEN)
        /\ Concat(chunks) = combined

\* A payload whose chunks differ from one another has been chunked.
C3_Witness ==
    /\ pc = "literals"
    /\ Len(chunks) > 1
    /\ \A i \in 2..Len(chunks) : chunks[i] # chunks[i - 1]

\* ------------------------------------------------------------------------
\* C4: the AssertionError of main is never raised; once the fragments are
\* joined the payload is 2 x 16384 = 32768 characters long, and once it is
\* chunked that is 32 chunks x 1024.
\* ------------------------------------------------------------------------
C4_LengthInvariant ==
    /\ err.type # "AssertionError"
    /\ pc \in AfterJoin =>
          /\ Len(combined) = Len(PART_FILES) * PART_HEX_LEN
          /\ Len(combined) = 32768
    /\ pc \in AfterWrap =>
          /\ Len(chunks) = 32
          /\ Len(combined) = Len(chunks) * CHUNK_HEX_LEN

\* The join of two validated fragments has passed the length check.
C4_Witness == pc = "wrap" /\ Len(parts) = 2 /\ Len(combined) = 32768

\* ------------------------------------------------------------------------
\* C5 (as claimed): a fragment whose length without its whitespace is not
\* 16384 is rejected with the length message, which gives that length and
\* the expected one.
\* ------------------------------------------------------------------------
C5_LengthMismatchReported ==
    (Judged /\ Len(WithoutWhitespace(fileText)) # PART_HEX_LEN)
        => /\ Rejected
           /\ err = ValueError(<<LatestPath, " is ",
                                 ToString(Len(WithoutWhitespace(fileText))),
                                 " chars, expected 16384">>)

\* ------------------------------------------------------------------------
\* C6 (as claimed): with the fragment taken without its whitespace, the
\* right length with a non-hex character gives the invalid-hex error, a
\* wrong length with only hex digits gives the length error, both together
\* are rejected, and no accepted fragment has a non-hex character.
\* ------------------------------------------------------------------------
C6_ChecksIndependent ==
    LET n == WithoutWhitespace(fileText)
    IN Judged =>
         /\ (Len(n) = PART_HEX_LEN /\ ~IsHex(n))
                => (Rejected /\ err = ValueError(HexMessage(LatestPath)))
         /\ (Len(n) # PART_HEX_LEN /\ IsHex(n))
                => (Rejected /\ err = ValueError(LengthMessage(LatestPath, n)))
         /\ (Len(n) # PART_HEX_LEN /\ ~IsHex(n)) => Rejected
         /\ Accepted => IsHex(n)

\* ------------------------------------------------------------------------
\* C7: read_and_validate decides a text and the same text in the other
\* letter case alike - accepted with the same returned value, or rejected
\* with the same error; no returned fragment holds an upper-case letter; and
\* the second half of the payload in the rendered text is what
\* read_and_validate returns for the second file in the other letter case.
\* ------------------------------------------------------------------------
C7_CaseNormalization ==
    /\ \A i \in 1..Len(parts) : NoUpper(parts[i])
    /\ Judged =>
          LET r == read_and_validate(LatestPath, SwapCase(fileText))
          IN /\ Accepted => (r.ok /\ r.value = parts[nread])
             /\ Rejected => (~r.ok /\ r.error = err)
             /\ pc \in AfterFormat =>
                   LET payload == Concat(Tokens(sol_source))
                   IN /\ Len(payload) = COMBINED_HEX_LEN
                      /\ SubSeq(payload, PART_HEX_LEN + 1, COMBINED_HEX_LEN)
                             = r.value

\* A run whose second file held upper-case digits has written its output.
C7_Witness ==
    /\ pc = "done"
    /\ ~NoUpper(fileText)
    /\ outFile.text = sol_source

\* ------------------------------------------------------------------------
\* C8 (as claimed): a finished run has printed one line, which names
\* src/BasicRom.sol and the number of bytes, half the payload's length.
\* ------------------------------------------------------------------------
C8_ConfirmationNamesPathAndSize ==
    pc = "done" =>
        stdout = << <<"Generated ", OUTPUT_SOL, " (",
                      ToString(Len(combined) \div 2), " bytes)">> >>

\* ------------------------------------------------------------------------
\* C9: the rendered text holds as many hex literals as there are chunks, 32,
\* and the i-th literal holds the i-th chunk, 1024 characters; for the
\* fragments "00" x 8192 and "ff" x 8192 the first literal is "00" x 512 and
\* the last is "ff" x 512.
\* ------------------------------------------------------------------------
C9_OneLiteralPerChunk ==
    pc \in AfterFormat =>
        LET toks == Tokens(sol_source)
        IN /\ Len(toks) = Len(chunks)
           /\ Len(toks) = 32
           /\ \A i \in 1..Len(toks) :
                 /\ toks[i] = chunks[i]
                 /\ Len(toks[i]) = 1024
                 /\ toks[i] = SubSeq(combined, (i - 1) * 1024 + 1, i * 1024)
           /\ parts = <<Full("zero"), Full("ones")>> =>
                 /\ toks[1] = Run("0", 1024)
                 /\ toks[32] = Run("f", 1024)

\* The run on "00" x 8192 and "ff" x 8192 has written its output.
C9_Witness ==
    /\ pc = "done"
    /\ parts = <<Full("zero"), Full("ones")>>
    /\ outFile = [exists |-> TRUE, text |-> sol_source]
    /\ Len(Tokens(outFile.text)) = 32

\* ------------------------------------------------------------------------
\* C10 (as claimed): no fragment has been validated - accepted or rejected -
\* before every fragment has been read.
\* ------------------------------------------------------------------------
C10_AllLoadedBeforeValidation ==
    (Len(parts) > 0 \/ Rejected) => nread = Len(PART_FILES)

\* The place of a state in the sequence of stages.
Rank ==
    CASE pc = "read" -> 2 * (p - 1)
      [] pc = "validate" -> 2 * p - 1
      [] pc = "join" -> 2 * Len(PART_FILES)
      [] pc = "wrap" -> 2 * Len(PART_FILES) + 1
      [] pc = "literals" -> 2 * Len(PART_FILES) + 2
      [] pc = "format" -> 2 * Len(PART_FILES) + 3
      [] pc = "write" -> 2 * Len(PART_FILES) + 4
      [] pc = "print" -> 2 * Len(PART_FILES) + 5
      [] pc = "done" -> 2 * Len(PART_FILES) + 6
      [] OTHER -> 2 * Len(PART_FILES) + 7

\* ------------------------------------------------------------------------
\* C10 (amended): a run takes the stages one after the other - read and
\* validate fragment 1, read and validate fragment 2, join, chunk, render,
\* write, print - or fails and stops.  A fragment is validated before the
\* next one is read, so the state in which every fragment is read and none is
\* validated does not occur; each later stage starts with the whole output
\* of the one before it and nothing of the ones after it.
\* ------------------------------------------------------------------------
C10_StagesInOrder ==
    /\ [][pc # "failed" /\ (pc' = "failed" \/ Rank' = Rank + 1)]_vars
    /\ [](/\ nread \in {Len(parts), Len(parts) + 1}
          /\ ~(nread = Len(PART_FILES) /\ Len(parts) = 0)
          /\ pc = "read" => (nread = p - 1 /\ Len(parts) = p - 1)
          /\ pc = "validate" => (nread = p /\ Len(parts) = p - 1)
          /\ pc \in AfterJoin \cup {"join"} => Len(parts) = Len(PART_FILES)
          /\ pc \in AfterJoin => combined = Concat(parts)
          /\ pc \notin AfterJoin \cup {"failed"} => combined = <<>>
          /\ pc \notin AfterWrap \cup {"failed"} => chunks = <<>>
          /\ pc \in AfterWrap => chunks # <<>>
          /\ pc \notin {"format", "failed"} \cup AfterFormat => hex_literals = <<>>
          /\ pc \notin AfterFormat \cup {"failed"} => sol_source = <<>>
          /\ pc \in AfterFormat => sol_source # <<>>
          /\ pc \notin {"print", "done", "failed"} => outFile \in PriorOutputs
          /\ pc \in {"print", "done"} => outFile.text = sol_source
          /\ pc # "done" => stdout = <<>>)

\* Fragment 1 is validated and fragment 2 is not yet read.
C10_Witness == pc = "read" /\ p = 2 /\ nread = 1 /\ Len(parts) = 1

====
